---- MODULE Spec2Model ----
(***************************************************************************)
(* Participation query language of course/enrollment.py: the table-driven  *)
(* lexer, the operator-precedence parser parse_query, the evaluation of    *)
(* the predicate it builds as a filter over the course's participations,   *)
(* and the view query_participations that unions the lines of a query      *)
(* block and drives a bulk operation inside one transaction.               *)
(*                                                                         *)
(* Text is a sequence of one-character strings.  A predicate (a Django Q   *)
(* object in the source) is a record tree with op in leaf/and/or/not.      *)
(***************************************************************************)
EXTENDS Integers, Sequences, FiniteSets, TLC

VARIABLES
  db,      \* the store: status and tags of every participation, tag entities
  pre,     \* the store as committed before the last submission began
  req,     \* the POST data of the last submission
  out,     \* what the last submission produced: result list, messages, exception
  prev,    \* request and outcome of the submission before the last one
  pc,      \* "idle", "done" (one submission handled), "done2", "parsed"
  expr,    \* the expr_str given to parse_query
  parsed,  \* what parse_query(course, expr) produced
  txns     \* the requests in flight at once: what each has read, how far it is

vars == <<db, pre, req, out, prev, pc, expr, parsed, txns>>

(***************************************************************************)
(* Characters                                                              *)
(***************************************************************************)
Letter ==
  {"a","b","c","d","e","f","g","h","i","j","k","l","m","n","o","p","q","r",
   "s","t","u","v","w","x","y","z","A","E","U"}

Digit == {"0","1","2","3","4","5","6","7","8","9"}

\* \w under re.UNICODE, restricted to the characters of the model
WordChar == Letter \cup Digit \cup {"_"}

\* what str.strip() removes and what [^ \t\n\r\f\v)] excludes besides ")"
Whitespace == {" ", "\t", "\n", "\r", "\f"}

Char == WordChar \cup Whitespace \cup {":", "-", "(", ")", "@", "."}

(***************************************************************************)
(* Lexer: pytools.lex.lex over _LEX_TABLE                                  *)
(***************************************************************************)
\* One row per (tag, RE): the literal the pattern starts with, the character
\* class of its one-or-more repeated group (empty: no group), and whether
\* the pattern ends with \b.
LEX_TABLE ==
  << [tag |-> "and",            lit |-> <<"a","n","d">>,                cls |-> {}, wordb |-> TRUE],
     [tag |-> "or",             lit |-> <<"o","r">>,                 cls |-> {}, wordb |-> TRUE],
     [tag |-> "not",            lit |-> <<"n","o","t">>,                cls |-> {}, wordb |-> TRUE],
     [tag |-> "openpar",        lit |-> <<"(">>,                  cls |-> {}, wordb |-> FALSE],
     [tag |-> "closepar",       lit |-> <<")">>,                  cls |-> {}, wordb |-> FALSE],
     [tag |-> "id",             lit |-> <<"i","d",":">>,                cls |-> Digit, wordb |-> FALSE],
     [tag |-> "email",          lit |-> <<"e","m","a","i","l",":">>,
        cls |-> Char \ (Whitespace \cup {")"}), wordb |-> FALSE],
     [tag |-> "email_contains", lit |-> <<"e","m","a","i","l","-","c","o","n","t","a","i","n","s",":">>,
        cls |-> Char \ (Whitespace \cup {")"}), wordb |-> FALSE],
     [tag |-> "user",           lit |-> <<"u","s","e","r","n","a","m","e",":">>,
        cls |-> Char \ (Whitespace \cup {")"}), wordb |-> FALSE],
     [tag |-> "user_contains",  lit |-> <<"u","s","e","r","n","a","m","e","-","c","o","n","t","a","i","n","s",":">>,
        cls |-> Char \ (Whitespace \cup {")"}), wordb |-> FALSE],
     [tag |-> "tagged",         lit |-> <<"t","a","g","g","e","d",":">>,
        cls |-> WordChar \cup {"-"}, wordb |-> FALSE],
     [tag |-> "role",           lit |-> <<"r","o","l","e",":">>,              cls |-> WordChar, wordb |-> FALSE],
     [tag |-> "status",         lit |-> <<"s","t","a","t","u","s",":">>,            cls |-> WordChar, wordb |-> FALSE],
     [tag |-> "has_started",    lit |-> <<"h","a","s","-","s","t","a","r","t","e","d",":">>,
        cls |-> WordChar \cup {"-"}, wordb |-> FALSE],
     [tag |-> "has_submitted",  lit |-> <<"h","a","s","-","s","u","b","m","i","t","t","e","d",":">>,
        cls |-> WordChar \cup {"-"}, wordb |-> FALSE],
     [tag |-> "whitespace",     lit |-> <<>>,                  cls |-> {" ", "\t"}, wordb |-> FALSE] >>

\* _TERMINALS: the tags the implicit-and lookahead of inner_parse accepts
TERMINALS ==
  {"id", "email", "email_contains", "user", "user_contains", "tagged", "role", "status"}

PREC_OR == 10
\* (mutant of PREC_AND: "and" binds more loosely than "or")
PREC_AND_below_or == PREC_OR - 5
PREC_AND == 20
PREC_NOT == 30

\* s[i..] starts with the literal w (positions are 1-based here, 0-based in a token)
StartsWith(s, i, w) ==
  /\ i + Len(w) - 1 <= Len(s)
  /\ SubSeq(s, i, i + Len(w) - 1) = w

\* the first position >= i whose character is not in cls (Len(s)+1 if none): greedy +
RECURSIVE SpanEnd(_, _, _)
SpanEnd(s, i, cls) ==
  IF i <= Len(s) /\ s[i] \in cls THEN SpanEnd(s, i + 1, cls) ELSE i

\* (mutant of MatchEnd: the group of a terminal may be empty, * for +)
MatchEnd_empty_group(rule, s, i) ==
  IF ~StartsWith(s, i, rule.lit) THEN 0
  ELSE LET g == i + Len(rule.lit)
           e == IF rule.cls = {} THEN g ELSE SpanEnd(s, g, rule.cls)
       IN IF rule.cls # {} /\ e = g /\ rule.lit = <<>> THEN 0
          ELSE IF rule.wordb /\ e <= Len(s) /\ s[e] \in WordChar THEN 0
          ELSE e

\* rule.match(s, i): the position after the match, 0 when the rule does not match at i
MatchEnd(rule, s, i) ==
  IF ~StartsWith(s, i, rule.lit) THEN 0
  ELSE LET g == i + Len(rule.lit)
           e == IF rule.cls = {} THEN g ELSE SpanEnd(s, g, rule.cls)
       IN IF rule.cls # {} /\ e = g THEN 0
          ELSE IF rule.wordb /\ e <= Len(s) /\ s[e] \in WordChar THEN 0
          ELSE e

\* the first rule of the table, from row k on, that matches at i (0: none)
RECURSIVE FirstRule(_, _, _, _)
FirstRule(table, s, i, k) ==
  IF k > Len(table) THEN 0
  ELSE IF MatchEnd(table[k], s, i) # 0 THEN k
  ELSE FirstRule(table, s, i, k + 1)

\* the while loop of lex(): tokens (tag, matched text, 0-based index, group 1)
RECURSIVE LexFrom(_, _, _, _)
LexFrom(table, s, i, acc) ==
  IF i > Len(s) THEN [err |-> FALSE, at |-> 0, toks |-> acc]
  ELSE LET k == FirstRule(table, s, i, 1)
       IN IF k = 0 THEN [err |-> TRUE, at |-> i - 1, toks |-> <<>>]
          ELSE LET e == MatchEnd(table[k], s, i)
                   t == [tag   |-> table[k].tag,
                         s     |-> SubSeq(s, i, e - 1),
                         idx   |-> i - 1,
                         group |-> IF table[k].cls = {} \/ table[k].lit = <<>>
                                   THEN <<>>
                                   ELSE SubSeq(s, i + Len(table[k].lit), e - 1)]
               IN LexFrom(table, s, e, Append(acc, t))

lex(table, s) == LexFrom(table, s, 1, <<>>)

(***************************************************************************)
(* Predicates: django.db.models.Q                                          *)
(***************************************************************************)
NoQ == [op |-> "none"]

\* Q(field=value); the payload's field name tells its type apart
LeafStr(f, v)    == [op |-> "leaf", field |-> f, val |-> v]
LeafNum(f, n)    == [op |-> "leaf", field |-> f, num |-> n]
LeafPk(f, t)     == [op |-> "leaf", field |-> f, pk |-> t]
LeafCourse(f, c) == [op |-> "leaf", field |-> f, course |-> c]
LeafFlag(f, b)   == [op |-> "leaf", field |-> f, flag |-> b]

\* Q.__and__, Q.__or__, Q.__invert__
q_and(l, r) == [op |-> "and", l |-> l, r |-> r]
q_or(l, r)  == [op |-> "or", l |-> l, r |-> r]
q_not(q)    == [op |-> "not", q |-> q]

(***************************************************************************)
(* Parser: parse_query, over a LexIterator                                 *)
(***************************************************************************)
\* A parse state is the LexIterator's index together with the table of tag
\* entities, which parse_terminal may extend (get_or_create).
next_tok(toks, ps) == toks[ps.index + 1]
next_tag(toks, ps) == next_tok(toks, ps).tag
is_at_end(toks, ps) == ps.index >= Len(toks)
is_next(toks, ps, tag) == ps.index < Len(toks) /\ next_tag(toks, ps) = tag
advance(ps) == [ps EXCEPT !.index = @ + 1]

Parsed(q, ps) == [err |-> FALSE, msg |-> "", q |-> q, ps |-> ps]
\* pstate.raise_parse_error(msg): a ParseError leaves the parser
raise_parse_error(msg, ps) == [err |-> TRUE, msg |-> msg, q |-> NoQ, ps |-> ps]

\* int() of a string of decimal digits
DigitVal(c) ==
  CASE c = "0" -> 0 [] c = "1" -> 1 [] c = "2" -> 2 [] c = "3" -> 3 [] c = "4" -> 4
    [] c = "5" -> 5 [] c = "6" -> 6 [] c = "7" -> 7 [] c = "8" -> 8 [] c = "9" -> 9

RECURSIVE ToInt(_)
ToInt(ds) ==
  IF ds = <<>> THEN 0 ELSE 10 * ToInt(SubSeq(ds, 1, Len(ds) - 1)) + DigitVal(ds[Len(ds)])

\* (mutant of get_or_create: the tag is looked up and never inserted)
get_without_create(tagEntities, course, name) ==
  [ptag |-> [course |-> course, name |-> name], tagEntities |-> tagEntities]

\* ParticipationTag.objects.get_or_create(course=course, name=name): the tag's
\* primary key is modelled by the pair that identifies it
get_or_create(tagEntities, course, name) ==
  [ptag |-> [course |-> course, name |-> name],
   tagEntities |-> tagEntities \cup {[course |-> course, name |-> name]}]

parse_terminal(course, toks, ps) ==
  LET t == next_tok(toks, ps)
      g == t.group
  IN CASE t.tag = "id" -> Parsed(LeafNum("user__id", ToInt(g)), advance(ps))
       [] t.tag = "email" -> Parsed(LeafStr("user__email__iexact", g), advance(ps))
       [] t.tag = "email_contains" ->
            Parsed(LeafStr("user__email__icontains", g), advance(ps))
       [] t.tag = "user" -> Parsed(LeafStr("user__username__exact", g), advance(ps))
       [] t.tag = "user_contains" ->
            Parsed(LeafStr("user__username__contains", g), advance(ps))
       [] t.tag = "tagged" ->
            LET gc == get_or_create(ps.tagEntities, course, g)
            IN Parsed(LeafPk("tags__pk", gc.ptag),
                      advance([ps EXCEPT !.tagEntities = gc.tagEntities]))
       [] t.tag = "role" -> Parsed(LeafStr("role", g), advance(ps))
       [] t.tag = "status" -> Parsed(LeafStr("status", g), advance(ps))
       [] t.tag = "has_started" ->
            Parsed(q_and(LeafStr("flow_sessions__flow_id", g),
                         LeafCourse("flow_sessions__course", course)),
                   advance(ps))
       [] t.tag = "has_submitted" ->
            Parsed(q_and(q_and(LeafStr("flow_sessions__flow_id", g),
                               LeafCourse("flow_sessions__course", course)),
                         LeafFlag("flow_sessions__in_progress", FALSE)),
                   advance(ps))
       [] OTHER -> raise_parse_error("terminal expected", ps)

RECURSIVE inner_parse(_, _, _, _)
RECURSIVE extend(_, _, _, _, _)

\* the while did_something loop of inner_parse, with left_query so far
extend(course, toks, left_query, ps, min_precedence) ==
  IF is_at_end(toks, ps) THEN Parsed(left_query, ps)
  ELSE IF next_tag(toks, ps) = "and" /\ PREC_AND > min_precedence THEN
    LET r == inner_parse(course, toks, advance(ps), PREC_AND)
    IN IF r.err THEN r
       ELSE extend(course, toks, q_and(left_query, r.q), r.ps, min_precedence)
  ELSE IF next_tag(toks, ps) = "or" /\ PREC_OR > min_precedence THEN
    LET r == inner_parse(course, toks, advance(ps), PREC_OR)
    IN IF r.err THEN r
       ELSE extend(course, toks, q_or(left_query, r.q), r.ps, min_precedence)
  ELSE IF /\ next_tag(toks, ps) \in TERMINALS \cup {"not", "openpar"}
          /\ PREC_AND > min_precedence THEN
    LET r == inner_parse(course, toks, ps, PREC_AND)
    IN IF r.err THEN r
       ELSE extend(course, toks, q_and(left_query, r.q), r.ps, min_precedence)
  ELSE Parsed(left_query, ps)

inner_parse(course, toks, ps, min_precedence) ==
  IF is_at_end(toks, ps) THEN raise_parse_error("unexpected end of input", ps)
  ELSE
    LET first ==
          IF is_next(toks, ps, "not") THEN
            LET r == inner_parse(course, toks, advance(ps), PREC_NOT)
            IN IF r.err THEN r ELSE Parsed(q_not(r.q), r.ps)
          ELSE IF is_next(toks, ps, "openpar") THEN
            LET r == inner_parse(course, toks, advance(ps), 0)
            IN IF r.err THEN r
               ELSE IF is_at_end(toks, r.ps)
                 THEN raise_parse_error("unexpected end of input", r.ps)
               ELSE IF ~is_next(toks, r.ps, "closepar")
                 THEN raise_parse_error("closepar expected", r.ps)
               ELSE Parsed(r.q, advance(r.ps))
          ELSE parse_terminal(course, toks, ps)
    IN IF first.err THEN first
       ELSE extend(course, toks, first.q, first.ps, min_precedence)

\* the tokens handed to the LexIterator
NonWhitespace(toks) == SelectSeq(toks, LAMBDA t : t.tag # "whitespace")

ParseFailure(kind, msg, ps) ==
  [status |-> kind, msg |-> msg, q |-> NoQ, index |-> ps.index,
   tagEntities |-> ps.tagEntities]

\* (mutant of finish_parse: what was parsed is returned when tokens are left)
finish_parse_partial(toks, r) ==
  IF r.err THEN ParseFailure("ParseError", r.msg, r.ps)
  ELSE [status |-> "ok", msg |-> "", q |-> r.q, index |-> r.ps.index,
        tagEntities |-> r.ps.tagEntities]

\* the end of parse_query, with r what inner_parse(pstate) gave
finish_parse(toks, r) ==
  IF r.err THEN ParseFailure("ParseError", r.msg, r.ps)
  ELSE IF ~is_at_end(toks, r.ps)
    THEN ParseFailure("ParseError", "leftover input after completed parse", r.ps)
  ELSE [status |-> "ok", msg |-> "", q |-> r.q, index |-> r.ps.index,
        tagEntities |-> r.ps.tagEntities]

\* parse_query from the LexIterator on: pstate over the tokens toks
parse_tokens(course, toks, ps0) ==
  IF is_at_end(toks, ps0) THEN ParseFailure("ParseError", "unexpected end of input", ps0)
  ELSE finish_parse(toks, inner_parse(course, toks, ps0, 0))

\* what lex() hands to parse_query: its tokens, or InvalidTokenError
parse_lexed(course, lx, ps0) ==
  IF lx.err THEN ParseFailure("InvalidTokenError", "invalid token", ps0)
  ELSE parse_tokens(course, NonWhitespace(lx.toks), ps0)

\* parse_query(course, expr_str) against the tag table tagEntities.  status is
\* "ok", "InvalidTokenError" (raised by lex) or "ParseError"; tagEntities is the
\* tag table as the call leaves it.
parse_query(course, tagEntities, expr_str) ==
  parse_lexed(course, lex(LEX_TABLE, expr_str), [index |-> 0, tagEntities |-> tagEntities])

(***************************************************************************)
(* The store: participations, their users, flow sessions and tags          *)
(***************************************************************************)
Pids == {"A", "B", "C", "D"}

\* the course the view is called for, and another course of the same site
TheCourse == "c1"
OtherCourse == "c2"

participation_status_requested == <<"r","e","q","u","e","s","t","e","d">>
participation_status_active == <<"a","c","t","i","v","e">>
participation_status_dropped == <<"d","r","o","p","p","e","d">>

\* the columns of a participation the view never writes
Participation ==
  [p \in Pids |->
     CASE p = "A" -> [course |-> TheCourse, user_id |-> 1, username |-> <<"z","o","e">>,
                      email |-> <<"z","o","e","@","e","x",".","o","r","g">>, role |-> <<"s","t","u","d","e","n","t">>]
       [] p = "B" -> [course |-> TheCourse, user_id |-> 2, username |-> <<"b","o","b">>,
                      email |-> <<"b","o","b","@","e","x",".","o","r","g">>, role |-> <<"s","t","u","d","e","n","t">>]
       [] p = "C" -> [course |-> TheCourse, user_id |-> 3, username |-> <<"a","m","y">>,
                      email |-> <<"a","m","y","@","e","x",".","o","r","g">>, role |-> <<"o","b","s","e","r","v","e","r">>]
       [] p = "D" -> [course |-> OtherCourse, user_id |-> 4, username |-> <<"d","a","n">>,
                      email |-> <<"d","a","n","@","e","x",".","o","r","g">>, role |-> <<"s","t","u","d","e","n","t">>]]

\* the flow sessions of each participation (never written by the view)
FlowSessions ==
  [p \in Pids |->
     CASE p = "A" -> {}
       [] p = "B" -> {[id |-> 1, flow_id |-> <<"q","u","i","z">>, course |-> TheCourse, in_progress |-> TRUE],
                      [id |-> 2, flow_id |-> <<"h","w">>, course |-> TheCourse, in_progress |-> FALSE]}
       [] p = "C" -> {[id |-> 3, flow_id |-> <<"q","u","i","z">>, course |-> TheCourse, in_progress |-> FALSE],
                      [id |-> 4, flow_id |-> <<"q","u","i","z">>, course |-> TheCourse, in_progress |-> TRUE]}
       [] p = "D" -> {[id |-> 5, flow_id |-> <<"q","u","i","z">>, course |-> OtherCourse, in_progress |-> FALSE]}]

Tag(course, name) == [course |-> course, name |-> name]

\* the row a LEFT OUTER JOIN yields for a participation without related rows
NullTag == [course |-> "NULL", name |-> <<>>]
NullSession == [id |-> 0, flow_id |-> <<>>, course |-> "NULL", in_progress |-> FALSE]

(***************************************************************************)
(* Evaluation of a predicate: QuerySet.filter(Q)                           *)
(***************************************************************************)
Lower(c) == CASE c = "A" -> "a" [] c = "E" -> "e" [] c = "U" -> "u" [] OTHER -> c

LowerStr(s) == [i \in 1..Len(s) |-> Lower(s[i])]

\* sub occurs in s as a contiguous substring
Contains(s, sub) == \E i \in 1..(Len(s) + 1) : StartsWith(s, i, sub)

\* the lookups that span a many-valued relation of Participation
TagLookups == {"tags__pk"}
FlowSessionLookups ==
  {"flow_sessions__flow_id", "flow_sessions__course", "flow_sessions__in_progress"}

\* Whether q constrains the relation (given by its lookups) by a condition
\* outside any negation: only then is the relation joined.
RECURSIVE UsesJoin(_, _)
UsesJoin(q, rel) ==
  CASE q.op = "leaf" -> q.field \in rel
    [] q.op = "and" -> UsesJoin(q.l, rel) \/ UsesJoin(q.r, rel)
    [] q.op = "or" -> UsesJoin(q.l, rel) \/ UsesJoin(q.r, rel)
    [] OTHER -> FALSE

\* One condition on participation p.  A condition on a many-valued relation
\* (tags, flow_sessions) reads the joined row (t, s) of the one filter() call;
\* under a negation (neg) it is a subquery of its own: "p has some related row
\* satisfying it".
EvalLeaf(q, d, p, t, s, neg) ==
  LET u == Participation[p]
  IN CASE q.field = "user__id" -> u.user_id = q.num
       [] q.field = "user__email__iexact" -> LowerStr(u.email) = LowerStr(q.val)
       [] q.field = "user__email__icontains" -> Contains(LowerStr(u.email), LowerStr(q.val))
       [] q.field = "user__username__exact" -> u.username = q.val
       [] q.field = "user__username__contains" -> Contains(u.username, q.val)
       [] q.field = "role" -> u.role = q.val
       [] q.field = "status" -> d.status[p] = q.val
       [] q.field = "tags__pk" ->
            IF neg THEN q.pk \in d.tags[p] ELSE t = q.pk
       [] q.field = "flow_sessions__flow_id" ->
            IF neg THEN \E x \in FlowSessions[p] : x.flow_id = q.val
            ELSE s # NullSession /\ s.flow_id = q.val
       [] q.field = "flow_sessions__course" ->
            IF neg THEN \E x \in FlowSessions[p] : x.course = q.course
            ELSE s # NullSession /\ s.course = q.course
       [] q.field = "flow_sessions__in_progress" ->
            IF neg THEN \E x \in FlowSessions[p] : x.in_progress = q.flag
            ELSE s # NullSession /\ s.in_progress = q.flag

RECURSIVE EvalQ(_, _, _, _, _, _)
EvalQ(q, d, p, t, s, neg) ==
  CASE q.op = "leaf" -> EvalLeaf(q, d, p, t, s, neg)
    [] q.op = "and" -> EvalQ(q.l, d, p, t, s, neg) /\ EvalQ(q.r, d, p, t, s, neg)
    [] q.op = "or" -> EvalQ(q.l, d, p, t, s, neg) \/ EvalQ(q.r, d, p, t, s, neg)
    [] q.op = "not" -> ~EvalQ(q.q, d, p, t, s, TRUE)

\* the joined rows of participation p in the query for q
JoinedRows(q, d, p) ==
  LET ts == IF UsesJoin(q, TagLookups) /\ d.tags[p] # {} THEN d.tags[p] ELSE {NullTag}
      ss == IF UsesJoin(q, FlowSessionLookups) /\ FlowSessions[p] # {}
            THEN FlowSessions[p] ELSE {NullSession}
  IN ts \X ss

\* how many rows of the result are participation p
RowCount(q, d, p) ==
  Cardinality({row \in JoinedRows(q, d, p) : EvalQ(q, d, p, row[1], row[2], FALSE)})

\* string order of user names (lower-case letters)
LetterOrder ==
  <<"a","b","c","d","e","f","g","h","i","j","k","l","m","n","o","p","q","r",
    "s","t","u","v","w","x","y","z">>

LetterRank(c) == CHOOSE i \in 1..Len(LetterOrder) : LetterOrder[i] = c

RECURSIVE StrLess(_, _)
StrLess(a, b) ==
  IF b = <<>> THEN FALSE
  ELSE IF a = <<>> THEN TRUE
  ELSE IF a[1] = b[1] THEN StrLess(Tail(a), Tail(b))
  ELSE LetterRank(a[1]) < LetterRank(b[1])

\* order_by("user__username") over a set of participations
RECURSIVE order_by_username(_)
order_by_username(S) ==
  IF S = {} THEN <<>>
  ELSE LET m == CHOOSE x \in S :
                  \A y \in S \ {x} : StrLess(Participation[x].username,
                                             Participation[y].username)
       IN <<m>> \o order_by_username(S \ {m})

Repeat(x, n) == [i \in 1..n |-> x]

RECURSIVE FlattenRows(_, _, _)
FlattenRows(ordered, q, d) ==
  IF ordered = <<>> THEN <<>>
  ELSE Repeat(Head(ordered), RowCount(q, d, Head(ordered)))
         \o FlattenRows(Tail(ordered), q, d)

\* list(Participation.objects.filter(course=course).filter(q)
\*        .order_by("user__username")): one entry per joined row
filter_participations(d, course, q) ==
  FlattenRows(order_by_username({p \in Pids : Participation[p].course = course}), q, d)

(***************************************************************************)
(* The view query_participations                                           *)
(***************************************************************************)
\* str.strip()
RECURSIVE LStrip(_)
LStrip(s) == IF s # <<>> /\ Head(s) \in Whitespace THEN LStrip(Tail(s)) ELSE s

RECURSIVE RStrip(_)
RStrip(s) ==
  IF s # <<>> /\ s[Len(s)] \in Whitespace THEN RStrip(SubSeq(s, 1, Len(s) - 1)) ELSE s

strip(s) == RStrip(LStrip(s))

\* str.split("\n"): the lines of s, the empty ones included
RECURSIVE SplitFrom(_, _, _)
SplitFrom(s, i, cur) ==
  IF i > Len(s) THEN <<cur>>
  ELSE IF s[i] = "\n" THEN <<cur>> \o SplitFrom(s, i + 1, <<>>)
  ELSE SplitFrom(s, i + 1, Append(cur, s[i]))

split_lines(s) == SplitFrom(s, 1, <<>>)

\* ParticipationQueryForm: queries is a required CharField, which strips its
\* value; op is one of the three choices; tag is not required
Ops == {"apply_tag", "remove_tag", "drop"}

form_is_valid(r) == strip(r.queries) # <<>> /\ r.op \in Ops

cleaned_queries(r) == strip(r.queries)

\* (mutant of union_subquery: the lines are combined with & for |)
union_subquery_and(parsed_query, parsed_subquery) ==
  IF parsed_query.op = "none" THEN parsed_subquery
  ELSE q_and(parsed_query, parsed_subquery)

\* parsed_query | parsed_subquery
union_subquery(parsed_query, parsed_subquery) ==
  IF parsed_query.op = "none" THEN parsed_subquery
  ELSE q_or(parsed_query, parsed_subquery)

\* whether the loop skips line q (after q = q.strip())
is_blank_line(q) == q = <<>>

RECURSIVE compile_lines(_, _, _, _, _)
RECURSIVE compile_line(_, _, _, _, _, _)
RECURSIVE after_parse(_, _, _, _, _)

\* the body of the loop after parse_query returned or raised r
after_parse(course, lines, lineno, parsed_query, r) ==
  IF r.status # "ok"
    THEN [err |-> TRUE, lineno |-> lineno, error_type |-> r.status,
          q |-> parsed_query, tagEntities |-> r.tagEntities]
  ELSE compile_lines(course, lines, lineno + 1, union_subquery(parsed_query, r.q),
                     r.tagEntities)

\* the body of the loop for the stripped line q
compile_line(course, lines, lineno, parsed_query, tagEntities, q) ==
  IF is_blank_line(q)
    THEN compile_lines(course, lines, lineno + 1, parsed_query, tagEntities)
  ELSE after_parse(course, lines, lineno, parsed_query,
                   parse_query(course, tagEntities, q))

\* the for loop over the lines, from the 0-based line lineno on, inside its try
compile_lines(course, lines, lineno, parsed_query, tagEntities) ==
  IF lineno >= Len(lines)
    THEN [err |-> FALSE, lineno |-> lineno, error_type |-> "", q |-> parsed_query,
          tagEntities |-> tagEntities]
  ELSE compile_line(course, lines, lineno, parsed_query, tagEntities,
                    strip(lines[lineno + 1]))

\* (mutant of after_compile_error: parsed_query is not reset)
after_compile_error_keeps_lines(c) == c.q

\* the except clause, entered with c.q the parsed_query of the lines before the
\* failing one: the message is added and parsed_query = None
after_compile_error(c) == NoQ

\* (mutant of tags_add: the tag is not associated)
tags_add_nothing(d, p, ptag) == d

\* (mutant of drop_participation: the wrong status is written)
drop_participation_denied(d, p) == [d EXCEPT !.status[p] = <<"d","e","n","i","e","d">>]

\* one step of a bulk operation on participation p
tags_add(d, p, ptag) == [d EXCEPT !.tags[p] = @ \cup {ptag}]
tags_remove(d, p, ptag) == [d EXCEPT !.tags[p] = @ \ {ptag}]
drop_participation(d, p) == [d EXCEPT !.status[p] = participation_status_dropped]

mutate_one(d, p, op, ptag) ==
  CASE op = "apply_tag" -> tags_add(d, p, ptag)
    [] op = "remove_tag" -> tags_remove(d, p, ptag)
    [] op = "drop" -> drop_participation(d, p)

\* for p in result: ..., for the first n entries of result
RECURSIVE mutate_loop(_, _, _, _, _)
mutate_loop(d, result, n, op, ptag) ==
  IF n = 0 THEN d
  ELSE mutate_one(mutate_loop(d, result, n - 1, op, ptag), result[n], op, ptag)

\* (mutant of atomic: every write is committed as it is made)
atomic_autocommit(before, after, raised) == after

\* transaction.atomic around the view: an exception leaving it rolls back
\* everything the view wrote
atomic(before, after, raised) == IF raised THEN before ELSE after

NoResult == [some |-> FALSE, val |-> <<>>]
NoError == [some |-> FALSE, lineno |-> 0, error_type |-> ""]
NoInfo == [some |-> FALSE, count |-> 0]
NoFail == [at |-> "none", k |-> 0]

\* what a call of the view leaves: the committed store, and the response, or the
\* exception (exc) that left the view on the store error fail
Outcome(d, valid, result, error, info, fail) ==
  [db |-> d,
   out |-> [valid |-> valid, result |-> result, error |-> error, info |-> info,
            exc |-> fail.at # "none", fail |-> fail]]

\* The bulk operation of the view on store d (d0 when the view was entered).
\* fail is the store error it meets: none, in the get_or_create of the
\* operation's tag ("tag"), or in the write for the k-th entry of result ("item").
bulk_operation(d0, d, r, result, fail) ==
  LET tagop == r.op \in {"apply_tag", "remove_tag"}
      gc == get_or_create(d.tagEntities, TheCourse, r.tag)
      d1 == IF tagop THEN [d EXCEPT !.tagEntities = gc.tagEntities] ELSE d
      n == IF fail.at = "item" THEN fail.k - 1 ELSE Len(result)
      d2 == mutate_loop(d1, result, n, r.op, gc.ptag)
  IN IF fail.at = "tag"
       THEN Outcome(atomic(d0, d, TRUE), TRUE, NoResult, NoError, NoInfo, fail)
     ELSE IF fail.at = "item"
       THEN Outcome(atomic(d0, d2, TRUE), TRUE, NoResult, NoError, NoInfo, fail)
     ELSE Outcome(atomic(d0, d2, FALSE), TRUE, [some |-> TRUE, val |-> result],
                  NoError, [some |-> TRUE, count |-> Len(result)], NoFail)

\* the view from "if parsed_query is not None" on, on the store d1 the
\* compilation left
filter_and_apply(d, d1, r, parsed_query, error, fail) ==
  IF parsed_query.op = "none"
    THEN Outcome(atomic(d, d1, FALSE), TRUE, NoResult, error, NoInfo, NoFail)
  ELSE IF ~r.apply
    THEN Outcome(atomic(d, d1, FALSE), TRUE,
                 [some |-> TRUE, val |-> filter_participations(d1, TheCourse, parsed_query)],
                 error, NoInfo, NoFail)
  ELSE bulk_operation(d, d1, r, filter_participations(d1, TheCourse, parsed_query), fail)

\* the view after its try statement, c being what the loop over the lines gave
after_compile(d, r, c, fail) ==
  filter_and_apply(d, [d EXCEPT !.tagEntities = c.tagEntities], r,
                   IF c.err THEN after_compile_error(c) ELSE c.q,
                   IF c.err
                     THEN [some |-> TRUE, lineno |-> c.lineno + 1,
                           error_type |-> c.error_type]
                     ELSE NoError,
                   fail)

\* query_participations for a POST r on store d, meeting store error fail
query_participations(d, r, fail) ==
  IF ~form_is_valid(r) THEN Outcome(d, FALSE, NoResult, NoError, NoInfo, NoFail)
  ELSE after_compile(d, r,
                     compile_lines(TheCourse, split_lines(cleaned_queries(r)), 0, NoQ,
                                   d.tagEntities),
                     fail)

\* how many entries the result list of r has on store d (0 without a list)
ResultLen(o) == IF o.out.result.some THEN Len(o.out.result.val) ELSE 0

\* the store errors the submission r can meet on store d
FailPoints(d, r) ==
  IF r.apply
    THEN {NoFail}
           \cup (IF r.op \in {"apply_tag", "remove_tag"} THEN {[at |-> "tag", k |-> 0]} ELSE {})
           \cup {[at |-> "item", k |-> k] :
                   k \in 1..ResultLen(query_participations(d, [r EXCEPT !.apply = FALSE],
                                                          NoFail))}
  ELSE {NoFail}

(***************************************************************************)
(* Inputs                                                                  *)
(***************************************************************************)
\* the longest token sequence of the parser inputs, and the most lines of a
\* submitted query block
MaxToks == 4
MaxLines == 3

tag_foo == <<"f","o","o">>
tag_bar == <<"b","a","r">>

\* Stores the site can be in.  BaseDb is the roster of the end-to-end scenario:
\* A active, B requested and tagged foo, C active and tagged foo; D is enrolled
\* in another course, which has a tag foo of its own.
BaseDb ==
  [status |-> [p \in Pids |-> IF p = "B" THEN participation_status_requested
                              ELSE participation_status_active],
   tags |-> [p \in Pids |->
               CASE p = "A" -> {}
                 [] p = "B" -> {Tag(TheCourse, tag_foo)}
                 [] p = "C" -> {Tag(TheCourse, tag_foo)}
                 [] p = "D" -> {Tag(OtherCourse, tag_foo)}],
   tagEntities |-> {Tag(TheCourse, tag_foo), Tag(OtherCourse, tag_foo)}]

InitDbs ==
  { BaseDb,
    \* B carries foo and bar
    [BaseDb EXCEPT !.tagEntities = @ \cup {Tag(TheCourse, tag_bar)},
                   !.tags["B"] = @ \cup {Tag(TheCourse, tag_bar)}] }

\* Join(<<a, b, c>>, sep) = a sep b sep c
RECURSIVE Join(_, _)
Join(ws, sep) ==
  IF ws = <<>> THEN <<>>
  ELSE IF Len(ws) = 1 THEN ws[1]
  ELSE ws[1] \o sep \o Join(Tail(ws), sep)

SeqsUpTo(S, n) == UNION {[1..k -> S] : k \in 0..n}

\* the lines a query block is made of: two queries, an empty line, a line of
\* blanks, a line that fails in the parser after its tagged: term was read, and
\* a line that fails in the lexer
line_requested == <<"s","t","a","t","u","s",":","r","e","q","u","e","s","t","e","d">>
line_new == <<"t","a","g","g","e","d",":","n","e","w"," ","o","r"," ","r","o","l","e",":","o","b","s","e","r","v","e","r">>
line_parse_error == <<"t","a","g","g","e","d",":","z","a","p"," ",")">>
line_lex_error == <<"r","o","l","e",":">>

Lines == {line_requested, line_new, <<>>, <<" ","\t">>, line_parse_error, line_lex_error}

QueryTexts == {Join(ls, <<"\n">>) : ls \in SeqsUpTo(Lines, MaxLines) \ {<<>>}}

ListRequest(t) == [queries |-> t, apply |-> FALSE, op |-> "apply_tag", tag |-> <<>>]

\* op and tag are not read when "apply" is not in the POST, and tag is not read
\* for drop: one value stands for all there
Requests ==
  {ListRequest(t) : t \in QueryTexts}
    \cup {[queries |-> t, apply |-> TRUE, op |-> o, tag |-> g] :
            t \in QueryTexts, o \in {"apply_tag", "remove_tag"}, g \in {tag_foo, tag_bar}}
    \cup {[queries |-> t, apply |-> TRUE, op |-> "drop", tag |-> <<>>] : t \in QueryTexts}

\* one-line queries joined by a connective, for the evaluation of and / or
SubQueries ==
  { <<"t","a","g","g","e","d",":","f","o","o">>, <<"t","a","g","g","e","d",":","b","a","r">>, <<"h","a","s","-","s","t","a","r","t","e","d",":","q","u","i","z">>, <<"h","a","s","-","s","u","b","m","i","t","t","e","d",":","h","w">>,
    <<"r","o","l","e",":","s","t","u","d","e","n","t">>, <<"s","t","a","t","u","s",":","a","c","t","i","v","e">>, <<"n","o","t"," ","t","a","g","g","e","d",":","f","o","o">>,
    <<"(","r","o","l","e",":","s","t","u","d","e","n","t"," ","o","r"," ","t","a","g","g","e","d",":","b","a","r",")">> }

Connectives == { <<" ","a","n","d"," ">>, <<" ">>, <<" ","o","r"," ">> }

ComposedQueries ==
  SubQueries \cup {a \o c \o b : a \in SubQueries, c \in Connectives, b \in SubQueries}

\* one lexeme of each of the ten terminal kinds of the query language
TerminalLexemes ==
  { <<"i","d",":","2">>, <<"e","m","a","i","l",":","B","O","B","@","e","x",".","o","r","g">>, <<"e","m","a","i","l","-","c","o","n","t","a","i","n","s",":","e","x">>, <<"u","s","e","r","n","a","m","e",":","b","o","b">>,
    <<"u","s","e","r","n","a","m","e","-","c","o","n","t","a","i","n","s",":","o">>, <<"t","a","g","g","e","d",":","f","o","o">>, <<"r","o","l","e",":","s","t","u","d","e","n","t">>, <<"s","t","a","t","u","s",":","a","c","t","i","v","e">>,
    <<"h","a","s","-","s","t","a","r","t","e","d",":","q","u","i","z">>, <<"h","a","s","-","s","u","b","m","i","t","t","e","d",":","h","w">> }

\* the lexemes the enumerated parser inputs are built from
Lexemes ==
  { <<"a","n","d">>, <<"o","r">>, <<"n","o","t">>, <<"(">>, <<")">>, <<"r","o","l","e",":","s","t","u","d","e","n","t">>, <<"t","a","g","g","e","d",":","f","o","o">>,
    <<"h","a","s","-","s","t","a","r","t","e","d",":","q","u","i","z">> }

expr_empty == <<>>
expr_openpar == <<"(">>
expr_missing_value == <<"r","o","l","e",":">>
expr_leftover == <<"r","o","l","e",":","s","t","u","d","e","n","t"," ","r","o","l","e",":","s","t","u","d","e","n","t"," ","a","n","d">>
expr_precedence == <<"r","o","l","e",":","s","t","u","d","e","n","t"," ","a","n","d"," ","n","o","t"," ","s","t","a","t","u","s",":","a","c","t","i","v","e"," ","o","r"," ","t","a","g","g","e","d",":","f","o","o">>

ParseInputs ==
  {Join(ws, <<" ">>) : ws \in SeqsUpTo(Lexemes, MaxToks)}
    \cup {a \o m \o b : a \in TerminalLexemes, b \in TerminalLexemes,
                        m \in { <<" ">>, <<" ","a","n","d"," ">>, <<" ","n","o","t"," ">>, <<" ","a","n","d"," ","n","o","t"," ">>}}
    \cup {a \o m \o b \o <<" ",")">> : a \in TerminalLexemes, b \in TerminalLexemes,
                                 m \in { <<" ","("," ">>, <<" ","a","n","d"," ","("," ">>}}
    \cup {expr_empty, expr_openpar, expr_missing_value, expr_leftover, expr_precedence,
          <<"r","o","l","e",":","s","t","u","d","e","n","t"," ","o","r"," ","s","t","a","t","u","s",":","a","c","t","i","v","e"," ","a","n","d"," ","t","a","g","g","e","d",":","f","o","o">>,
          <<"n","o","t"," ","r","o","l","e",":","s","t","u","d","e","n","t"," ","a","n","d"," ","s","t","a","t","u","s",":","a","c","t","i","v","e">>,
          <<"r","o","l","e",":","s","t","u","d","e","n","t"," ","a","n","d"," ","(","s","t","a","t","u","s",":","a","c","t","i","v","e"," ","o","r"," ","t","a","g","g","e","d",":","f","o","o",")">>,
          <<"(","r","o","l","e",":","s","t","u","d","e","n","t",")","a","n","d","\t","n","o","t","(","t","a","g","g","e","d",":","f","o","o",")">>,
          <<"a","n","d","r","o","i","d">>, <<"r","o","l","e",":","s","t","u","d","e","n","t"," ","o","r">>, <<"e","m","a","i","l",":","a","@","b",".","c",")">>, <<"t","a","g","g","e","d",":","a","-","b"," ","o","r"," ","i","d",":","0","7">>}

(***************************************************************************)
(* Specifications                                                          *)
(***************************************************************************)
NoReq == [queries |-> <<>>, apply |-> FALSE, op |-> "", tag |-> <<>>]
NoOut == [valid |-> FALSE, result |-> NoResult, error |-> NoError, info |-> NoInfo,
          exc |-> FALSE, fail |-> NoFail]
NoPrev == [some |-> FALSE, req |-> NoReq, out |-> NoOut]
NotParsed == [status |-> "none", msg |-> "", q |-> NoQ, index |-> 0, tagEntities |-> {}]

\* the two requests that may be in flight at once
TxnIds == {1, 2}

\* a request that has not arrived
NoTxn ==
  [state |-> "none", kind |-> "none", req |-> NoReq, result |-> <<>>, k |-> 0,
   tagEntities |-> {}, p |-> "none"]

NoTxns == [t \in TxnIds |-> NoTxn]

Init ==
  /\ db = BaseDb
  /\ pre = db
  /\ req = NoReq
  /\ out = NoOut
  /\ prev = NoPrev
  /\ pc = "idle"
  /\ expr = <<>>
  /\ parsed = NotParsed
  /\ txns = NoTxns

\* a POST to query_participations with data r, meeting store error fail
Submit(r, fail) ==
  /\ pc = "idle"
  /\ \E o \in {query_participations(db, r, fail)} :
        /\ db' = o.db
        /\ out' = o.out
  /\ pre' = db
  /\ req' = r
  /\ pc' = "done"
  /\ UNCHANGED <<prev, expr, parsed, txns>>

\* the same form posted once more after a successful operation, to apply it
\* again or only to list
Resubmit(r) ==
  /\ pc = "done"
  /\ out.info.some
  /\ \E o \in {query_participations(db, r, NoFail)} :
        /\ db' = o.db
        /\ out' = o.out
  /\ pre' = db
  /\ req' = r
  /\ prev' = [some |-> TRUE, req |-> req, out |-> out]
  /\ pc' = "done2"
  /\ UNCHANGED <<expr, parsed, txns>>

Next ==
  \/ /\ pc = "idle"
     /\ \E r \in Requests : \E fail \in FailPoints(db, r) : Submit(r, fail)
  \/ /\ pc = "done"
     /\ \E r \in {req, ListRequest(req.queries)} : Resubmit(r)

Spec == Init /\ [][Next]_vars

\* the terminals whose negation and double negation are evaluated
NegationTerminals ==
  { <<"t","a","g","g","e","d",":","f","o","o">>, <<"t","a","g","g","e","d",":","b","a","r">>, <<"h","a","s","-","s","t","a","r","t","e","d",":","q","u","i","z">>, <<"h","a","s","-","s","t","a","r","t","e","d",":","h","w">>,
    <<"h","a","s","-","s","u","b","m","i","t","t","e","d",":","q","u","i","z">>, <<"h","a","s","-","s","u","b","m","i","t","t","e","d",":","h","w">>, <<"r","o","l","e",":","s","t","u","d","e","n","t">>, <<"s","t","a","t","u","s",":","a","c","t","i","v","e">> }

NegatedQueries ==
  {<<"n","o","t"," ">> \o a : a \in NegationTerminals}
    \cup {<<"n","o","t"," ","n","o","t"," ">> \o a : a \in NegationTerminals}

\* a tag operation applied to the result of one sub-query, with a tag name
\* and with the tag field left empty
QueryOperations ==
  {[queries |-> t, apply |-> TRUE, op |-> o, tag |-> g] :
     t \in SubQueries, o \in {"apply_tag", "remove_tag"}, g \in {<<>>, tag_foo}}

\* submissions of one one-line query: list-only, or with a tag operation
NextQuery ==
  \/ /\ pc = "idle"
     /\ \E t \in ComposedQueries \cup NegatedQueries : Submit(ListRequest(t), NoFail)
  \/ /\ pc = "idle"
     /\ \E r \in QueryOperations : Submit(r, NoFail)

InitQuery ==
  /\ db \in InitDbs
  /\ pre = db
  /\ req = NoReq
  /\ out = NoOut
  /\ prev = NoPrev
  /\ pc = "idle"
  /\ expr = <<>>
  /\ parsed = NotParsed
  /\ txns = NoTxns

SpecQuery == InitQuery /\ [][NextQuery]_vars

\* parse_query as a function of its input
InitParse ==
  /\ db = BaseDb
  /\ pre = db
  /\ req = NoReq
  /\ out = NoOut
  /\ prev = NoPrev
  /\ pc = "idle"
  /\ expr \in ParseInputs
  /\ parsed = NotParsed
  /\ txns = NoTxns

ParseQuery ==
  /\ pc = "idle"
  /\ parsed' = parse_query(TheCourse, db.tagEntities, expr)
  /\ db' = [db EXCEPT !.tagEntities = parsed'.tagEntities]
  /\ pc' = "parsed"
  /\ UNCHANGED <<pre, req, out, prev, expr, txns>>

NextParse == ParseQuery

SpecParse == InitParse /\ [][NextParse]_vars

(***************************************************************************)
(* Properties of parse_query                                               *)
(***************************************************************************)
\* the ten terminal kinds of the query language
TerminalKinds ==
  {"id", "email", "email_contains", "user", "user_contains", "tagged", "role",
   "status", "has_started", "has_submitted"}

\* the tokens of expr (none when expr does not lex)
ExprTokens == NonWhitespace(lex(LEX_TABLE, expr).toks)

IsTerminal(t) == t.tag \in TerminalKinds

\* parse_query(expr) succeeded with the predicate that text parses to
SameAsParseOf(text) ==
  /\ parsed.status = "ok"
  /\ parse_query(TheCourse, pre.tagEntities, text).status = "ok"
  /\ parsed.q = parse_query(TheCourse, pre.tagEntities, text).q

\* C1: for all terminals a and b of any of the ten kinds, parse_query on "a b"
\* succeeds with the predicate of "a and b", on "a not b" with that of
\* "a and not b", and on "a ( b )" with that of "a and ( b )".
C1_ImplicitAndEveryKind ==
  pc = "parsed" =>
    \A toks \in {ExprTokens} :
      /\ (Len(toks) = 2 /\ IsTerminal(toks[1]) /\ IsTerminal(toks[2]))
           => SameAsParseOf(toks[1].s \o <<" ","a","n","d"," ">> \o toks[2].s)
      /\ (Len(toks) = 3 /\ IsTerminal(toks[1]) /\ toks[2].tag = "not" /\ IsTerminal(toks[3]))
           => SameAsParseOf(toks[1].s \o <<" ","a","n","d"," ","n","o","t"," ">> \o toks[3].s)
      /\ (/\ Len(toks) = 4 /\ IsTerminal(toks[1]) /\ toks[2].tag = "openpar"
          /\ IsTerminal(toks[3]) /\ toks[4].tag = "closepar")
           => SameAsParseOf(toks[1].s \o <<" ","a","n","d"," ","("," ">> \o toks[3].s \o <<" ",")">>)

\* The grammar of explicit operators, by recursive descent:
\*   expr := and_expr ("or" and_expr)*     and_expr := unary ("and" unary)*
\*   unary := "not" unary | "(" expr ")" | terminal
\* i is the position of the next token; the tree groups equal operators from
\* the left.
GrammarOk(q, i) == [ok |-> TRUE, q |-> q, i |-> i]
GrammarFail == [ok |-> FALSE, q |-> NoQ, i |-> 0]

TerminalPredicate(t) ==
  parse_terminal(TheCourse, <<t>>, [index |-> 0, tagEntities |-> {}]).q

RECURSIVE GrammarExpr(_, _)
RECURSIVE GrammarExprRest(_, _, _)
RECURSIVE GrammarAnd(_, _)
RECURSIVE GrammarAndRest(_, _, _)
RECURSIVE GrammarUnary(_, _)

GrammarUnary(toks, i) ==
  IF i > Len(toks) THEN GrammarFail
  ELSE IF toks[i].tag = "not" THEN
    LET r == GrammarUnary(toks, i + 1)
    IN IF r.ok THEN GrammarOk(q_not(r.q), r.i) ELSE GrammarFail
  ELSE IF toks[i].tag = "openpar" THEN
    LET r == GrammarExpr(toks, i + 1)
    IN IF r.ok /\ r.i <= Len(toks) /\ toks[r.i].tag = "closepar"
         THEN GrammarOk(r.q, r.i + 1) ELSE GrammarFail
  ELSE IF IsTerminal(toks[i]) THEN GrammarOk(TerminalPredicate(toks[i]), i + 1)
  ELSE GrammarFail

GrammarAndRest(toks, left, i) ==
  IF i <= Len(toks) /\ toks[i].tag = "and" THEN
    LET r == GrammarUnary(toks, i + 1)
    IN IF r.ok THEN GrammarAndRest(toks, [op |-> "and", l |-> left, r |-> r.q], r.i)
       ELSE GrammarFail
  ELSE GrammarOk(left, i)

GrammarAnd(toks, i) ==
  LET r == GrammarUnary(toks, i)
  IN IF r.ok THEN GrammarAndRest(toks, r.q, r.i) ELSE GrammarFail

GrammarExprRest(toks, left, i) ==
  IF i <= Len(toks) /\ toks[i].tag = "or" THEN
    LET r == GrammarAnd(toks, i + 1)
    IN IF r.ok THEN GrammarExprRest(toks, [op |-> "or", l |-> left, r |-> r.q], r.i)
       ELSE GrammarFail
  ELSE GrammarOk(left, i)

GrammarExpr(toks, i) ==
  LET r == GrammarAnd(toks, i)
  IN IF r.ok THEN GrammarExprRest(toks, r.q, r.i) ELSE GrammarFail

\* the tree the grammar gives the whole token sequence
GrammarTree(toks) ==
  LET r == GrammarExpr(toks, 1)
  IN IF r.ok /\ r.i = Len(toks) + 1 THEN r ELSE GrammarFail

leaf_role_student == [op |-> "leaf", field |-> "role", val |-> <<"s","t","u","d","e","n","t">>]
leaf_status_active == [op |-> "leaf", field |-> "status", val |-> <<"a","c","t","i","v","e">>]
leaf_tagged_foo == [op |-> "leaf", field |-> "tags__pk", pk |-> Tag(TheCourse, tag_foo)]

\* C2: on every token sequence of the grammar of explicit operators,
\* parse_query builds the tree the grammar prescribes (NOT over AND over OR,
\* equal operators grouped from the left, parentheses transparent); in
\* particular "a and not b or c" is (a AND NOT b) OR c.
C2_GrammarTree ==
  pc = "parsed" =>
    /\ \A g \in {GrammarTree(ExprTokens)} :
         g.ok => parsed.status = "ok" /\ parsed.q = g.q
    /\ expr = expr_precedence =>
         /\ parsed.status = "ok"
         /\ parsed.q = [op |-> "or",
                        l |-> [op |-> "and", l |-> leaf_role_student,
                               r |-> [op |-> "not", q |-> leaf_status_active]],
                        r |-> leaf_tagged_foo]

C2_Witness ==
  /\ pc = "parsed"
  /\ expr = expr_precedence
  /\ parsed.status = "ok"
  /\ parsed.q.op = "or"

\* C6 as stated: each of "", "(", "role:" and "role:student role:student and"
\* makes parse_query fail with a ParseError.
C6_AllParseErrors ==
  (pc = "parsed" /\ expr \in {expr_empty, expr_openpar, expr_missing_value, expr_leftover})
    => parsed.status = "ParseError"

\* C6 amended: "", "(" and "role:student role:student and" fail with a
\* ParseError; "role:" fails in the lexer, with an InvalidTokenError; none of
\* the four returns a predicate.
C6_ErrorBoundary ==
  pc = "parsed" =>
    /\ expr \in {expr_empty, expr_openpar, expr_leftover} => parsed.status = "ParseError"
    /\ expr = expr_missing_value => parsed.status = "InvalidTokenError"
    /\ expr \in {expr_empty, expr_openpar, expr_missing_value, expr_leftover}
         => parsed.q = NoQ

C6_Witness ==
  /\ pc = "parsed"
  /\ expr = expr_missing_value
  /\ parsed.status = "InvalidTokenError"

(***************************************************************************)
(* Properties of query_participations                                      *)
(***************************************************************************)
Range(s) == {s[i] : i \in DOMAIN s}

Handled == pc \in {"done", "done2"}

\* the participants in the list a response carries (none without a list)
ResultSet(o) == IF o.result.some THEN Range(o.result.val) ELSE {}

\* the participants a list-only submission of text returns on store d
MatchSet(d, text) == ResultSet(query_participations(d, ListRequest(text), NoFail).out)

\* the lines of the submitted text, blank ones included
SubmittedLines == split_lines(req.queries)

NonBlankLines == {i \in 1..Len(SubmittedLines) : strip(SubmittedLines[i]) # <<>>}

\* line i parses as a query of its own
Compiles(i) ==
  parse_query(TheCourse, pre.tagEntities, strip(SubmittedLines[i])).status = "ok"

\* the last submission applied operation op and reported success
Applied(op) == Handled /\ req.apply /\ req.op = op /\ out.info.some

\* C3: when every non-blank line of a submission is a valid query, the
\* participants returned are the union of those each non-blank line returns
\* on its own, and blank lines, wherever they are, cause no error.
C3_UnionOfLines ==
  (Handled /\ ~out.exc /\ \A i \in NonBlankLines : Compiles(i)) =>
    /\ ~out.error.some
    /\ NonBlankLines # {} => out.result.some
    /\ ResultSet(out) = UNION {MatchSet(pre, SubmittedLines[i]) : i \in NonBlankLines}

C3_Witness ==
  /\ pc = "done"
  /\ req.queries = line_requested \o <<"\n">> \o <<" ","\t">> \o <<"\n">> \o line_new
  /\ ~out.error.some
  /\ ResultSet(out) = {"B", "C"}

\* C4: when some line of the submission fails to lex or parse, whatever its
\* position, the operation and the "apply" flag, no participant's status or
\* tag set changes and the response carries no result list.
C4_FailingLineNoMutation ==
  (Handled /\ \E i \in NonBlankLines : ~Compiles(i)) =>
    /\ db.status = pre.status
    /\ db.tags = pre.tags
    /\ ~out.result.some
    /\ ~out.info.some
    /\ out.error.some

C4_Witness ==
  /\ pc = "done"
  /\ req.apply
  /\ req.op = "drop"
  /\ req.queries = line_requested \o <<"\n">> \o line_parse_error
  /\ out.error.some
  /\ out.error.lineno = 2

\* C5: when the store fails in the creation of the operation's tag or in the
\* write for the k-th matched participant, the submission leaves every
\* participant and every tag as they were before it.
C5_AllOrNothing ==
  (Handled /\ out.exc) => (db = pre /\ ~out.result.some /\ ~out.info.some)

C5_Witness ==
  /\ pc = "done"
  /\ out.exc
  /\ out.fail.at = "item"
  /\ out.fail.k = 2
  /\ req.op = "drop"
  /\ db = pre

\* C7: after a successful drop every participant the query matched is
\* dropped, every other participant keeps its status and no tag set changes;
\* and listing status:requested after dropping its result returns nobody.
C7_Drop ==
  /\ Applied("drop") =>
       LET matched == MatchSet(pre, req.queries)
       IN /\ \A p \in Pids :
               db.status[p] = IF p \in matched
                              THEN participation_status_dropped
                              ELSE pre.status[p]
          /\ db.tags = pre.tags
  /\ (/\ pc = "done2" /\ prev.req.apply /\ prev.req.op = "drop"
      /\ req = ListRequest(prev.req.queries)
      /\ \A i \in NonBlankLines : strip(SubmittedLines[i]) = line_requested)
       => out.result = [some |-> TRUE, val |-> <<>>]

C7_Witness ==
  /\ pc = "done2"
  /\ prev.req.apply
  /\ prev.req.op = "drop"
  /\ prev.req.queries = line_requested
  /\ prev.out.result.val = <<"B">>
  /\ req = ListRequest(line_requested)
  /\ db.status["B"] = participation_status_dropped
  /\ out.result = [some |-> TRUE, val |-> <<>>]

\* C8: after a successful apply_tag(name) the tag (course, name) exists,
\* every matched participant carries it, every other participant has the tag
\* set it had, and no status changes; the same submission applied a second
\* time leaves the store as the first left it.
C8_ApplyTag ==
  /\ Applied("apply_tag") =>
       LET matched == MatchSet(pre, req.queries)
       IN /\ Tag(TheCourse, req.tag) \in db.tagEntities
          /\ \A p \in Pids :
               IF p \in matched
                 THEN Tag(TheCourse, req.tag) \in db.tags[p]
                 ELSE db.tags[p] = pre.tags[p]
          /\ db.status = pre.status
  /\ (pc = "done2" /\ Applied("apply_tag") /\ req = prev.req) => db = pre

C8_Witness ==
  /\ pc = "done2"
  /\ Applied("apply_tag")
  /\ req = prev.req
  /\ req.tag = tag_bar
  /\ Tag(TheCourse, tag_bar) \in db.tags["B"]
  /\ Tag(TheCourse, tag_bar) \notin BaseDb.tagEntities
  /\ db = pre

\* C9: remove_tag(name) changes neither a tag set nor the course's tag
\* entities when no tag name existed or no matched participant carried it;
\* otherwise it removes the tag from the matched participants and from no
\* others.
C9_RemoveTag ==
  Applied("remove_tag") =>
    LET matched == MatchSet(pre, req.queries)
    IN /\ (\/ Tag(TheCourse, req.tag) \notin pre.tagEntities
           \/ \A p \in matched : Tag(TheCourse, req.tag) \notin pre.tags[p])
            => (db.tags = pre.tags /\ db.tagEntities = pre.tagEntities)
       /\ \A p \in Pids :
            db.tags[p] = IF p \in matched
                         THEN pre.tags[p] \ {Tag(TheCourse, req.tag)}
                         ELSE pre.tags[p]

\* C10: for all sub-queries a and b, "a and b" (and "a b" where it parses)
\* returns exactly the participants that a returns and b returns, and "a or b"
\* exactly those that a or b returns, also when a and b are conditions on
\* the same relation.
C10_AndOrAreSetOperations ==
  pc = "done" =>
    \A a \in SubQueries, b \in SubQueries :
      /\ req.queries = a \o <<" ","a","n","d"," ">> \o b
           => (out.result.some
               /\ ResultSet(out) = MatchSet(pre, a) \cap MatchSet(pre, b))
      /\ (req.queries = a \o <<" ">> \o b /\ out.result.some)
           => ResultSet(out) = MatchSet(pre, a) \cap MatchSet(pre, b)
      /\ req.queries = a \o <<" ","o","r"," ">> \o b
           => (out.result.some
               /\ ResultSet(out) = MatchSet(pre, a) \cup MatchSet(pre, b))

(***************************************************************************)
(* Properties of negation, duplicates and the tag name                     *)
(***************************************************************************)
\* the participations of the course the view runs in
CoursePids == {p \in Pids : Participation[p].course = TheCourse}

\* C11: for every terminal a, "not a" returns exactly the participants of the
\* course that a does not return, and "not not a" exactly those a returns.
C11_NegationComplements ==
  pc = "done" =>
    \A a \in NegationTerminals :
      /\ req.queries = <<"n","o","t"," ">> \o a
           => (out.result.some /\ ResultSet(out) = CoursePids \ MatchSet(pre, a))
      /\ req.queries = <<"n","o","t"," ","n","o","t"," ">> \o a
           => (out.result.some /\ ResultSet(out) = MatchSet(pre, a))

\* the tags (course, X) named by the tagged:X terms of submitted line i
TaggedTerms(i) ==
  LET l == lex(LEX_TABLE, strip(SubmittedLines[i]))
  IN {Tag(TheCourse, l.toks[k].group) :
        k \in {k \in DOMAIN l.toks : l.toks[k].tag = "tagged"}}

\* C12: a list-only submission whose lines all compile creates the tag
\* (course, X) of every tagged:X term it contains and changes nothing else:
\* no status, no participant's tag set, no other tag entity.
C12_ListModeCreatesReferencedTags ==
  (Handled /\ ~req.apply /\ out.result.some) =>
    /\ db.status = pre.status
    /\ db.tags = pre.tags
    /\ db.tagEntities
         = pre.tagEntities \cup UNION {TaggedTerms(i) : i \in NonBlankLines}

C12_Witness ==
  /\ pc = "done"
  /\ ~req.apply
  /\ req.queries = line_new
  /\ out.result = [some |-> TRUE, val |-> <<"C">>]
  /\ Tag(TheCourse, <<"n","e","w">>) \in db.tagEntities \ pre.tagEntities
  /\ db.tags = pre.tags

\* the submitted lines (1-based) that do not compile
FailingLines == {i \in NonBlankLines : ~Compiles(i)}

FirstFailingLine == CHOOSE i \in FailingLines : \A j \in FailingLines : i <= j

\* C13: the line number of the reported error is the 1-based position, in
\* the submitted text split on newlines with blank lines counted, of the
\* first line that does not compile; no line after it is compiled, so no tag
\* of a later line is created.
C13_ReportedLineNumber ==
  (Handled /\ out.error.some) =>
    /\ FailingLines # {}
    /\ out.error.lineno = FirstFailingLine
    /\ db.tagEntities \subseteq
         pre.tagEntities \cup UNION {TaggedTerms(i) : i \in 1..FirstFailingLine}

(***************************************************************************)
(* Two requests in flight at once                                          *)
(*                                                                         *)
(* query_participations runs inside transaction.atomic and sets no         *)
(* isolation level and takes no row lock when it reads; edit_participation *)
(* runs without a transaction.  The store is one with statement-level      *)
(* reads of committed data (read committed): a transaction reads what is   *)
(* committed when the statement runs, its writes become visible when it    *)
(* commits, and a write to a row another open transaction has written      *)
(* waits for that transaction to end.                                      *)
(***************************************************************************)
ConcQueries == { line_requested, <<"n","o","t"," ","t","a","g","g","e","d",":","b","a","r">> }

\* the bulk operations submitted concurrently
ConcRequests ==
  {[queries |-> t, apply |-> TRUE, op |-> "drop", tag |-> <<>>] : t \in ConcQueries}
    \cup {[queries |-> t, apply |-> TRUE, op |-> "apply_tag", tag |-> tag_bar] :
            t \in ConcQueries}

\* the participations transaction t has written so far
Written(t) == {txns[t].result[i] : i \in 1..txns[t].k}

\* requests r1 and r2 write the same row for one participation: its
\* Participation row (drop), or its row for the same tag
SameRow(r1, r2) ==
  \/ r1.op = "drop" /\ r2.op = "drop"
  \/ r1.op # "drop" /\ r2.op # "drop" /\ r1.tag = r2.tag

\* another open transaction holds the row that r writes for p
RowLocked(t, r, p) ==
  \E u \in TxnIds \ {t} :
    /\ txns[u].state = "open"
    /\ txns[u].kind = "bulk"
    /\ SameRow(txns[u].req, r)
    /\ p \in Written(u)

\* what the transaction of request r has read once result = list(...) is
\* built and the operation's tag looked up, c being the compiled lines
opened(r, c) ==
  [state |-> "open", kind |-> "bulk", req |-> r,
   result |-> IF c.err \/ c.q.op = "none" THEN <<>>
              ELSE filter_participations([db EXCEPT !.tagEntities = c.tagEntities],
                                         TheCourse, c.q),
   k |-> 0,
   tagEntities |-> IF r.op \in {"apply_tag", "remove_tag"}
                   THEN get_or_create(c.tagEntities, TheCourse, r.tag).tagEntities
                   ELSE c.tagEntities,
   p |-> "none"]

\* query_participations for POST r enters its transaction, compiles the lines
\* and reads the result list from the committed store
Begin(t, r) ==
  /\ txns[t].state = "none"
  /\ form_is_valid(r)
  /\ \E c \in {compile_lines(TheCourse, split_lines(cleaned_queries(r)), 0, NoQ,
                             db.tagEntities)} :
       txns' = [txns EXCEPT ![t] = opened(r, c)]
  /\ UNCHANGED <<db, pre, req, out, prev, pc, expr, parsed>>

\* one iteration of "for p in result": the write for the next participation,
\* held in the transaction until it commits
Write(t) ==
  /\ txns[t].state = "open"
  /\ txns[t].k < Len(txns[t].result)
  /\ ~RowLocked(t, txns[t].req, txns[t].result[txns[t].k + 1])
  /\ txns' = [txns EXCEPT ![t].k = @ + 1]
  /\ UNCHANGED <<db, pre, req, out, prev, pc, expr, parsed>>

\* the view returns and transaction.atomic commits what it wrote
Commit(t) ==
  /\ txns[t].state = "open"
  /\ txns[t].k = Len(txns[t].result)
  /\ db' = mutate_loop([db EXCEPT !.tagEntities = @ \cup txns[t].tagEntities],
                       txns[t].result, Len(txns[t].result), txns[t].req.op,
                       Tag(TheCourse, txns[t].req.tag))
  /\ txns' = [txns EXCEPT ![t].state = "committed"]
  /\ UNCHANGED <<pre, req, out, prev, pc, expr, parsed>>

\* a store error (a lock conflict, say) leaves the view and rolls it back
Abort(t) ==
  /\ txns[t].state = "open"
  /\ txns' = [txns EXCEPT ![t].state = "aborted"]
  /\ UNCHANGED <<db, pre, req, out, prev, pc, expr, parsed>>

\* edit_participation with "approve" for participation p: the status is set
\* and saved at once, whatever it was
Approve(t, p) ==
  /\ txns[t].state = "none"
  /\ ~RowLocked(t, [op |-> "drop", tag |-> <<>>], p)
  /\ db' = [db EXCEPT !.status[p] = participation_status_active]
  /\ txns' = [txns EXCEPT ![t] = [NoTxn EXCEPT !.state = "committed",
                                               !.kind = "approve", !.p = p]]
  /\ UNCHANGED <<pre, req, out, prev, pc, expr, parsed>>

NextConc ==
  \/ \E t \in TxnIds : \E r \in ConcRequests : Begin(t, r)
  \/ \E t \in TxnIds : Write(t)
  \/ \E t \in TxnIds : Commit(t)
  \/ \E t \in TxnIds : Abort(t)
  \/ \E p \in CoursePids : Approve(2, p)

SpecConc == Init /\ [][NextConc]_vars

\* request x run alone on store d
RunAlone(d, x) ==
  IF x.kind = "approve" THEN [d EXCEPT !.status[x.p] = participation_status_active]
  ELSE query_participations(d, x.req, NoFail).db

\* the stores that running the committed requests one after the other gives
SerialOutcomes ==
  LET done == {t \in TxnIds : txns[t].state = "committed"}
  IN IF done = {} THEN {pre}
     ELSE IF done = TxnIds
       THEN {RunAlone(RunAlone(pre, txns[1]), txns[2]),
             RunAlone(RunAlone(pre, txns[2]), txns[1])}
     ELSE {RunAlone(pre, txns[t]) : t \in done}

AllFinished == \A t \in TxnIds : txns[t].state \in {"committed", "aborted"}

\* C14: when two requests on the same course have both ended, the status and
\* the tags of every participant are those that running the committed ones one
\* after the other, in some order, gives.
C14_Serialized ==
  AllFinished =>
    \E d \in SerialOutcomes : d.status = db.status /\ d.tags = db.tags

(***************************************************************************)
(* Properties of the result list, the tag name and compile errors          *)
(***************************************************************************)
\* C15: the result list names each matched participant once, and the count
\* reported after an operation is the number of distinct participants in it.
C15_ResultHasNoDuplicates ==
  (pc = "done" /\ out.result.some) =>
    /\ Len(out.result.val) = Cardinality(ResultSet(out))
    /\ out.info.some => out.info.count = Cardinality(ResultSet(out))

\* C16: a submission rejected for a line that does not compile leaves the
\* whole store as it was, tag entities included.
C16_RejectedLeavesStore ==
  (Handled /\ out.error.some) => db = pre

\* C17: apply_tag or remove_tag applied with an empty tag name creates no tag
\* and changes no participant's tags.
C17_TagNameRequired ==
  (pc = "done" /\ req.apply /\ req.op \in {"apply_tag", "remove_tag"} /\ req.tag = <<>>) =>
    /\ db.tagEntities = pre.tagEntities
    /\ db.tags = pre.tags

(***************************************************************************)
(* Progress of the parser                                                  *)
(***************************************************************************)
\* the values min_precedence takes
Precedences == {0, PREC_OR, PREC_AND, PREC_NOT}

\* pstate with the cursor at token i
CursorAt(i) == [index |-> i, tagEntities |-> {}]

\* C18: parse_query ends on every token sequence, with a predicate and all
\* tokens consumed or with an error.  From every cursor position and for
\* every min_precedence, inner_parse and its extension loop leave the cursor
\* at or after the position they found it, within the tokens; an inner_parse
\* that returns, the one of the implicit-and branch included, has consumed at
\* least one token; tokens left over after the top-level parse are reported
\* as "leftover input".
C18_ParserProgress ==
  (pc = "parsed" /\ parsed.status # "InvalidTokenError") =>
    \A toks \in {ExprTokens} :
      /\ parsed.status \in {"ok", "ParseError"}
      /\ parsed.index <= Len(toks)
      /\ parsed.status = "ok" => (parsed.index = Len(toks) /\ parsed.q # NoQ)
      /\ \A i \in 0..(Len(toks) - 1), mp \in Precedences :
           /\ \E r \in {inner_parse(TheCourse, toks, CursorAt(i), mp)} :
                /\ i <= r.ps.index
                /\ r.ps.index <= Len(toks)
                /\ ~r.err => i < r.ps.index
           /\ \E r \in {extend(TheCourse, toks, leaf_role_student, CursorAt(i), mp)} :
                /\ i <= r.ps.index
                /\ r.ps.index <= Len(toks)
      /\ Len(toks) > 0 =>
           \E r \in {inner_parse(TheCourse, toks, CursorAt(0), 0)} :
             (~r.err /\ r.ps.index < Len(toks))
               => /\ parsed.status = "ParseError"
                  /\ parsed.msg = "leftover input after completed parse"
                  /\ parsed.q = NoQ

C18_Witness ==
  /\ pc = "parsed"
  /\ expr = <<"r","o","l","e",":","s","t","u","d","e","n","t"," ","t","a","g","g","e","d",":","f","o","o"," ",")">>
  /\ parsed.status = "ParseError"
  /\ parsed.msg = "leftover input after completed parse"
  /\ parsed.index = 2

====
